---- MODULE Spec2Model ----
(***************************************************************************)
(* A model of the sure-bet engine of src/surebet/find_surebet.py:          *)
(* normalisation (extract_relevant_columns), matching and merging          *)
(* (full_multiway_fuzzy_merge), evaluation (calculate_implied_             *)
(* probabilities) and stake allocation (beat_bookies).  Further sections   *)
(* model the concurrent loaders and the merge of src/surebet/f_surebet.py, *)
(* the orchestrator src/run.py and the record filter src/run_api.py.       *)
(*                                                                         *)
(* Numbers.  Decimal odds are integers in units of 1/Scale (2.10 is 42 at  *)
(* Scale 20).  A cell that pandas holds as NaN/None is the empty set, a    *)
(* cell holding the number v is {v}.  Quotients are exact fractions        *)
(* [num, den]; the code computes them in float64, and the odds used here   *)
(* are ones on which float64 and exact arithmetic order implied and 1 the  *)
(* same way.                                                               *)
(***************************************************************************)
EXTENDS Integers, Sequences, FiniteSets, TLC

VARIABLES pc, all_bookies, clean_i, cleaned_bookies, threshold, ratio, master_keys,
          results_by_bookie, total_stake, master_columns, master_df, sure_bets,
          log, report, archived, bet, stake_plan,
          files, futures, bookies, pickle_bookies, excel_bookies, writes,
          attempt, delay, task_status, surebet_calls,
          script, id, processed

vars == <<pc, all_bookies, clean_i, cleaned_bookies, threshold, ratio, master_keys,
          results_by_bookie, total_stake, master_columns, master_df, sure_bets,
          log, report, archived, bet, stake_plan,
          files, futures, bookies, pickle_bookies, excel_bookies, writes,
          attempt, delay, task_status, surebet_calls,
          script, id, processed>>

\* The state of the concurrent loading stage of f_surebet.py, which the runs
\* of find_surebet.py leave alone.
loader_vars == <<files, futures, bookies, pickle_bookies, excel_bookies, writes>>

\* The state of the orchestrator run.py and of the record filter run_api.py,
\* which the sure-bet engine leaves alone.
run_vars == <<attempt, delay, task_status, surebet_calls>>

tracker_vars == <<script, id, processed>>

apart_vars == <<run_vars, tracker_vars>>

outside_vars == <<loader_vars, apart_vars>>

LoaderIdle ==
    /\ files = <<>>
    /\ futures = <<>>
    /\ bookies = <<>>
    /\ pickle_bookies = <<>>
    /\ excel_bookies = <<>>
    /\ writes = <<>>

RunIdle ==
    /\ attempt = <<>>
    /\ delay = <<>>
    /\ task_status = <<>>
    /\ surebet_calls = 0

TrackerIdle ==
    /\ script = 0
    /\ id = <<>>
    /\ processed = <<>>

OutsideIdle == LoaderIdle /\ RunIdle /\ TrackerIdle

\* Odds resolution: one unit is 1/Scale of a decimal odds point.
Scale == 20

\* Largest number of merged events drawn for the evaluator.
MaxEvents == 2

\* Largest number of rows of a raw source table.
MaxRawRows == 3

\* Largest number of rows of a cleaned source table drawn for the matcher.
MaxCleanRows == 2

\* config "MIN_ODDS" and "MAX_ODDS", in hundredths.
MIN_ODDS == 101

MAX_ODDS == 10000

\* config "FUZZY_THRESHOLD" and "TOTAL_STAKE".
FUZZY_THRESHOLD == 80

TOTAL_STAKE == 100

\* ---------------------------------------------------------------- helpers

NaN == {}

\* A line of the log: what is reported, and about which source.
Log(tag, who) == [tag |-> tag, who |-> who]

\* No report file has been written.
NoReport == [status |-> "none", rows |-> <<>>]

Num(v) == {v}

Val(cell) == CHOOSE v \in cell : TRUE

Min(S) == CHOOSE v \in S : \A w \in S : v <= w

Max(S) == CHOOSE v \in S : \A w \in S : v >= w

Range(s) == {s[i] : i \in DOMAIN s}

\* Decimal odds written in hundredths (210 is 2.10), in units of 1/Scale.
Dec(hundredths) == (hundredths * Scale) \div 100

Frac(n, d) == IF d < 0 THEN [num |-> 0 - n, den |-> 0 - d] ELSE [num |-> n, den |-> d]

Zero == [num |-> 0, den |-> 1]

RAdd(f, g) ==
    IF f.den = g.den THEN Frac(f.num + g.num, f.den)
    ELSE Frac(f.num * g.den + g.num * f.den, f.den * g.den)

REq(f, g) ==
    IF f.den = g.den THEN f.num = g.num ELSE f.num * g.den = g.num * f.den

RNeg(f) == f.num < 0

\* ------------------------------------------------- sources and column names

\* A name is a sequence of segments, so that a suffix test and a substring
\* replacement act on it as str.endswith and str.replace do.
Bookies == << <<"mozzart">>, <<"wwin">> >>

ColName(bookie, suffix) == Append(bookie, suffix)

EndsWith(col, suffix) == Len(col) > 0 /\ col[Len(col)] = suffix

StrReplace(col, old) == SelectSeq(col, LAMBDA s : s # old)

\* The odds columns the merge writes for the sources `names`, in its order.
columns_of(names) ==
    [k \in 1..(3 * Len(names)) |->
        ColName(names[((k - 1) \div 3) + 1],
                <<"_1", "_x", "_2">>[((k - 1) % 3) + 1])]

\* master_df.columns (the odds columns among them).
all_cols == master_columns

\* ------------------------------------------------------------ beat_bookies

Det3(m) ==
      m[1][1] * (m[2][2] * m[3][3] - m[2][3] * m[3][2])
    - m[1][2] * (m[2][1] * m[3][3] - m[2][3] * m[3][1])
    + m[1][3] * (m[2][1] * m[3][2] - m[2][2] * m[3][1])

ReplaceCol(m, j, rhs) ==
    [r \in 1..3 |-> [c \in 1..3 |-> IF c = j THEN rhs[r] ELSE m[r][c]]]

\* sympy.solve of a 3x3 linear system in symbols declared nonnegative: the
\* unique solution (Cramer's rule), or no usable solution (<<>>) when the
\* system is singular or the solution breaks the symbols' assumption.
solve(m, rhs) ==
    LET d == Det3(m)
        s == [j \in 1..3 |-> Frac(Det3(ReplaceCol(m, j, rhs)), d)]
    IN  IF d = 0 THEN <<>>
        ELSE IF \E j \in 1..3 : RNeg(s[j]) THEN <<>>
        ELSE s

ZeroPlan ==
    [Stake1 |-> Zero, Stake2 |-> Zero, Stake3 |-> Zero,
     Profit1 |-> Zero, Profit2 |-> Zero, Profit3 |-> Zero]

\* odds * stake - total_stake, the odds being odds/Scale.
Profit(odds, stake, stakeTotal) ==
    Frac(odds * stake.num - stakeTotal * Scale * stake.den, Scale * stake.den)

beat_bookies_wrong_eq3(odds1, odds2, odds3, stakeTotal) ==
    LET sol == solve(<< <<1, 1, 1>>, <<odds1, 0 - odds2, 0>>, <<odds2, 0, 0 - odds3>> >>,
                     <<stakeTotal, 0, 0>>)
    IN  IF sol = <<>> THEN ZeroPlan
        ELSE [Stake1 |-> sol[1], Stake2 |-> sol[2], Stake3 |-> sol[3],
              Profit1 |-> Profit(odds1, sol[1], stakeTotal),
              Profit2 |-> Profit(odds2, sol[2], stakeTotal),
              Profit3 |-> Profit(odds3, sol[3], stakeTotal)]

beat_bookies_wrong_eq1(odds1, odds2, odds3, stakeTotal) ==
    LET sol == solve(<< <<1, 1, 0>>, <<odds1, 0 - odds2, 0>>, <<odds1, 0, 0 - odds3>> >>,
                     <<stakeTotal, 0, 0>>)
    IN  IF sol = <<>> THEN ZeroPlan
        ELSE [Stake1 |-> sol[1], Stake2 |-> sol[2], Stake3 |-> sol[3],
              Profit1 |-> Profit(odds1, sol[1], stakeTotal),
              Profit2 |-> Profit(odds2, sol[2], stakeTotal),
              Profit3 |-> Profit(odds3, sol[3], stakeTotal)]

\* eq1: x + y + z = total_stake; eq2: odds1*x = odds2*y; eq3: odds1*x = odds3*z
\* (eq2 and eq3 multiplied through by Scale).  The three returns of the
\* all-zero plan (no solution, a negative stake, an exception) are one.
beat_bookies(odds1, odds2, odds3, stakeTotal) ==
    LET sol == solve(<< <<1, 1, 1>>, <<odds1, 0 - odds2, 0>>, <<odds1, 0, 0 - odds3>> >>,
                     <<stakeTotal, 0, 0>>)
    IN  IF sol = <<>> THEN ZeroPlan
        ELSE IF RNeg(sol[1]) \/ RNeg(sol[2]) \/ RNeg(sol[3]) THEN ZeroPlan
        ELSE [Stake1 |-> sol[1], Stake2 |-> sol[2], Stake3 |-> sol[3],
              Profit1 |-> Profit(odds1, sol[1], stakeTotal),
              Profit2 |-> Profit(odds2, sol[2], stakeTotal),
              Profit3 |-> Profit(odds3, sol[3], stakeTotal)]

\* A call beat_bookies(odds1, odds2, odds3, total_stake) with the arguments
\* held in bet; the returned plan is kept in stake_plan.
call_beat_bookies ==
    /\ pc = "call"
    /\ stake_plan' = beat_bookies(bet.odds1, bet.odds2, bet.odds3, bet.total_stake)
    /\ pc' = "returned"
    /\ UNCHANGED <<outside_vars, all_bookies, clean_i, cleaned_bookies, threshold, ratio, master_keys,
                   results_by_bookie, total_stake, master_columns, master_df, sure_bets,
                   log, report, archived, bet>>

\* Odds a caller can hand to beat_bookies, anomalous ones among them.
PlanOdds == {0 - Dec(200), 0, Dec(200), Dec(300), Dec(410)}

InitPlan ==
    /\ OutsideIdle
    /\ pc = "call"
    /\ bet \in [odds1 : PlanOdds, odds2 : PlanOdds, odds3 : PlanOdds,
                 total_stake : {TOTAL_STAKE, 37}]
    /\ stake_plan = <<>>
    /\ all_bookies = <<>>
    /\ clean_i = 0
    /\ cleaned_bookies = <<>>
    /\ threshold = FUZZY_THRESHOLD
    /\ ratio = <<>>
    /\ master_keys = <<>>
    /\ results_by_bookie = <<>>
    /\ total_stake = TOTAL_STAKE
    /\ master_columns = <<>>
    /\ master_df = <<>>
    /\ sure_bets = <<>>
    /\ log = {}
    /\ report = NoReport
    /\ archived = {}

NextPlan == call_beat_bookies

SpecPlan == InitPlan /\ [][NextPlan]_vars

IsZeroPlan(p) ==
    /\ p.Stake1.num = 0 /\ p.Stake2.num = 0 /\ p.Stake3.num = 0
    /\ p.Profit1.num = 0 /\ p.Profit2.num = 0 /\ p.Profit3.num = 0

\* C20: beat_bookies called with one of its odds zero or negative returns
\* the all-zero plan.
C20_NonPositiveOddsRejected ==
    (pc = "returned" /\ (bet.odds1 <= 0 \/ bet.odds2 <= 0 \/ bet.odds3 <= 0)) =>
        IsZeroPlan(stake_plan)

\* ---------------------------------------- calculate_implied_probabilities

odds_cols(suffix) == SelectSeq(all_cols, LAMBDA c : EndsWith(c, suffix))

RowValues(row, cols) == UNION {row.cols[cols[i]] : i \in DOMAIN cols}

\* DataFrame.min(axis=1, skipna=True) over the outcome's columns.
best_odds(row, cols) ==
    IF RowValues(row, cols) = {} THEN NaN ELSE Num(Min(RowValues(row, cols)))

\* DataFrame.idxmin(axis=1): the first column holding the row's minimum,
\* then .str.replace(suffix, '').
best_source(row, cols, suffix) ==
    LET best == best_odds(row, cols)
        hits == {i \in DOMAIN cols : row.cols[cols[i]] # NaN /\ row.cols[cols[i]] = best}
    IN  IF hits = {} THEN NaN ELSE Num(StrReplace(cols[Min(hits)], suffix))

Gt0(cell) == cell # NaN /\ Val(cell) > 0

with_best(row) ==
    [idx |-> row.idx, home |-> row.home, away |-> row.away, time |-> row.time,
     cols |-> row.cols, frames |-> row.frames,
     best_1 |-> best_odds(row, odds_cols("_1")),
     best_x |-> best_odds(row, odds_cols("_x")),
     best_2 |-> best_odds(row, odds_cols("_2")),
     best_1_source |-> best_source(row, odds_cols("_1"), "_1"),
     best_x_source |-> best_source(row, odds_cols("_x"), "_x"),
     best_2_source |-> best_source(row, odds_cols("_2"), "_2")]

is_valid(row) == Gt0(row.best_1) /\ Gt0(row.best_x) /\ Gt0(row.best_2)

implied_without_away(row) ==
    LET a == Val(row.best_1)
        b == Val(row.best_x)
        c == Val(row.best_2)
    IN  Frac(Scale * (b * c + a * c), a * b * c)

\* 1/best_1 + 1/best_x + 1/best_2 with best = value/Scale.
implied(row) ==
    LET a == Val(row.best_1)
        b == Val(row.best_x)
        c == Val(row.best_2)
    IN  Frac(Scale * (b * c + a * c + a * b), a * b * c)

is_sure_bet_le(row) == implied(row).num <= implied(row).den

\* df_valid['implied'] < 1
is_sure_bet(row) == implied(row).num < implied(row).den

with_plan(row, stakeTotal) ==
    LET plan == beat_bookies(Val(row.best_1), Val(row.best_x), Val(row.best_2), stakeTotal)
    IN  [idx |-> row.idx, home |-> row.home, away |-> row.away, time |-> row.time,
         best_1 |-> row.best_1, best_x |-> row.best_x, best_2 |-> row.best_2,
         best_1_source |-> row.best_1_source,
         best_x_source |-> row.best_x_source,
         best_2_source |-> row.best_2_source,
         implied |-> implied(row),
         Stake1 |-> plan.Stake1, Stake2 |-> plan.Stake2, Stake3 |-> plan.Stake3,
         Profit1 |-> plan.Profit1, Profit2 |-> plan.Profit2, Profit3 |-> plan.Profit3]

MapSeq(s, F(_)) == [i \in DOMAIN s |-> F(s[i])]

\* A cell of an odds column holds a dict where the merge looked up a key that
\* indexes several rows of a source; DataFrame.min then compares a dict with
\* a number and raises TypeError, which nothing catches.
has_dict_cell(df) == \E i \in DOMAIN df : df[i].frames # {}

calculate_implied_probabilities ==
    /\ pc = "merged"
    /\ IF odds_cols("_1") = <<>> \/ odds_cols("_x") = <<>> \/ odds_cols("_2") = <<>>
       THEN /\ master_df' = master_df
            /\ sure_bets' = <<>>
            /\ log' = log \cup {Log("missing_odds_columns", <<>>)}
            /\ pc' = "evaluated"
       ELSE IF has_dict_cell(master_df)
       THEN /\ pc' = "raised"
            /\ UNCHANGED <<master_df, sure_bets, log>>
       ELSE LET best_df  == MapSeq(master_df, with_best)
                df_valid == SelectSeq(best_df, is_valid)
                sure     == SelectSeq(df_valid, is_sure_bet)
            IN  /\ master_df' = best_df
                /\ sure_bets' = MapSeq(sure, LAMBDA r : with_plan(r, total_stake))
                /\ log' = IF sure = <<>> THEN log \cup {Log("no_sure_bets", <<>>)} ELSE log
                /\ pc' = "evaluated"
    /\ UNCHANGED <<outside_vars, all_bookies, clean_i, cleaned_bookies, threshold, ratio, master_keys,
                   results_by_bookie, total_stake, master_columns, report, archived,
                   bet, stake_plan>>

\* ------------------------------------------------ extract_relevant_columns

\* Characters in code-point order; a string is a sequence of them.
CharOrder == <<" ", "A", "B", "X", "a", "n">>

CharRank(c) == CHOOSE k \in DOMAIN CharOrder : CharOrder[k] = c

RECURSIVE StrLess(_, _)
StrLess(s, t) ==
    IF t = <<>> THEN FALSE
    ELSE IF s = <<>> THEN TRUE
    ELSE IF s[1] # t[1] THEN CharRank(s[1]) < CharRank(t[1])
    ELSE StrLess(Tail(s), Tail(t))

REQUIRED_COLUMNS == {"home", "away", "1", "x", "2", "time"}

\* The generic branch of standardize_columns: of its renames only
\* kickoff -> time changes a name.  (The per-source mappings apply to sources
\* whose name contains 'meridianbet_fudbal' or 'sportplus'.)
standardize_columns(columns) ==
    IF "kickoff" \in columns THEN (columns \ {"kickoff"}) \cup {"time"} ELSE columns

no_missing_columns(columns) == {}

\* validate_schema raises MissingColumnError.
missing_columns(columns) == REQUIRED_COLUMNS \ columns

\* pd.to_numeric(col.astype(str).str.replace(',', '.'), errors='coerce')
to_numeric(cell) ==
    IF cell.kind \in {"num", "comma"} THEN Num(cell.v) ELSE NaN

\* pd.to_datetime(col, errors='coerce').dt.tz_localize(None)
to_datetime(cell) ==
    IF cell.kind \in {"naive", "tz"} THEN Num(cell.v) ELSE NaN

\* TEAM_NAME_ALIASES is empty: .get(name, name) returns name.
alias_team_name(name) == name

\* astype(str) of a cell: a null becomes the text 'nan'.
astype_str(cell) == IF cell = NaN THEN <<"n", "a", "n">> ELSE Val(cell)

\* Lines 222-227: numeric odds, parsed time, away as text, sum_odds.
convert_row(r) ==
    LET o1 == to_numeric(r.c1)
        ox == to_numeric(r.cx)
        o2 == to_numeric(r.c2)
    IN  [home |-> r.home, away |-> alias_team_name(astype_str(r.away)),
         time |-> to_datetime(r.time), c1 |-> o1, cx |-> ox, c2 |-> o2,
         sum_odds |-> IF o1 = NaN \/ ox = NaN \/ o2 = NaN THEN NaN
                      ELSE Num(Val(o1) + Val(ox) + Val(o2))]

\* sort_values(by='sum_odds') with the default quicksort: rows in ascending
\* sum, equal sums in any order, rows with a null sum last in their
\* original order.  The set of index orders the sort can produce.
sort_orders(rows) ==
    LET withSum == {i \in DOMAIN rows : rows[i].sum_odds # NaN}
        noSum   == SelectSeq([i \in DOMAIN rows |-> i], LAMBDA i : rows[i].sum_odds = NaN)
        k       == Cardinality(withSum)
    IN  {p \o noSum :
            p \in {q \in [1..k -> withSum] :
                     /\ \A i, j \in 1..k : i # j => q[i] # q[j]
                     /\ \A i, j \in 1..k :
                          i < j => Val(rows[q[i]].sum_odds) <= Val(rows[q[j]].sum_odds)}}

group_key(r) == <<Val(r.home), r.away, Val(r.time)>>

KeyLess(k1, k2) ==
    \/ StrLess(k1[1], k2[1])
    \/ k1[1] = k2[1] /\ StrLess(k1[2], k2[2])
    \/ k1[1] = k2[1] /\ k1[2] = k2[2] /\ k1[3] < k2[3]

RECURSIVE SortKeys(_)
SortKeys(keys) ==
    IF keys = {} THEN <<>>
    ELSE LET m == CHOOSE k \in keys : \A o \in keys \ {k} : KeyLess(k, o)
         IN  <<m>> \o SortKeys(keys \ {m})

\* GroupBy.first() on one column: the first entry that is not null.
first_non_null(cells) ==
    LET present == SelectSeq(cells, LAMBDA c : c # NaN)
    IN  IF present = <<>> THEN NaN ELSE present[1]

\* groupby(["home","away","time"], as_index=False).first() over rows in the
\* order `order`: rows with a null key are left out, groups come in key order.
groupby_first(rows, order) ==
    LET sorted == [i \in DOMAIN order |-> rows[order[i]]]
        keyed  == SelectSeq(sorted, LAMBDA r : r.home # NaN /\ r.time # NaN)
        keys   == SortKeys({group_key(keyed[i]) : i \in DOMAIN keyed})
    IN  [g \in DOMAIN keys |->
            LET members == SelectSeq(keyed, LAMBDA r : group_key(r) = keys[g])
            IN  [home |-> Num(keys[g][1]), away |-> keys[g][2], time |-> Num(keys[g][3]),
                 c1 |-> first_non_null(MapSeq(members, LAMBDA r : r.c1)),
                 cx |-> first_non_null(MapSeq(members, LAMBDA r : r.cx)),
                 c2 |-> first_non_null(MapSeq(members, LAMBDA r : r.c2))]]

\* dropna(subset=[...]) and the three odds > 0.
not_null_positive(r) ==
    /\ r.home # NaN /\ r.time # NaN
    /\ Gt0(r.c1) /\ Gt0(r.cx) /\ Gt0(r.c2)

in_range_below_max(v) == ~(v * 100 > MAX_ODDS * Scale)

\* filter_outliers keeps a row unless an odds is below min_odds or above
\* max_odds (odds in units of 1/Scale against bounds in hundredths).
in_range(v) == ~(v * 100 < MIN_ODDS * Scale) /\ ~(v * 100 > MAX_ODDS * Scale)

not_outlier(r) == in_range(Val(r.c1)) /\ in_range(Val(r.cx)) /\ in_range(Val(r.c2))

clean_row(r) ==
    [home |-> alias_team_name(astype_str(r.home)), away |-> r.away, time |-> Val(r.time),
     o1 |-> Val(r.c1), ox |-> Val(r.cx), o2 |-> Val(r.c2)]

\* The cleaned table for one order of the sort.
extract_relevant_columns(rows, order) ==
    LET converted == MapSeq(rows, convert_row)
        grouped   == groupby_first(converted, order)
        kept      == SelectSeq(SelectSeq(grouped, not_null_positive), not_outlier)
    IN  MapSeq(kept, clean_row)

\* One iteration of main's cleaning loop (clean_i sources are behind it):
\* the next loaded source is cleaned; it is skipped on MissingColumnError or
\* when nothing is left of it.
clean_bookie ==
    /\ pc = "cleaning"
    /\ clean_i < Len(all_bookies)
    /\ LET src  == all_bookies[clean_i + 1]
           cols == standardize_columns(src.columns)
       IN  IF missing_columns(cols) # {}
           THEN /\ cleaned_bookies' = cleaned_bookies
                /\ log' = log \cup {Log("missing_columns", src.name)}
           ELSE \E order \in sort_orders(MapSeq(src.rows, convert_row)) :
                   LET df == extract_relevant_columns(src.rows, order)
                   IN  IF df = <<>>
                       THEN /\ cleaned_bookies' = cleaned_bookies
                            /\ log' = log \cup {Log("empty_after_cleaning", src.name)}
                       ELSE /\ cleaned_bookies' =
                                  Append(cleaned_bookies, [name |-> src.name, rows |-> df])
                            /\ log' = log
    /\ clean_i' = clean_i + 1
    /\ pc' = IF clean_i + 1 = Len(all_bookies) THEN "cleaned" ELSE "cleaning"
    /\ UNCHANGED <<outside_vars, all_bookies, threshold, ratio, master_keys, results_by_bookie,
                   total_stake, master_columns, master_df, sure_bets, report, archived,
                   bet, stake_plan>>

\* ----------------------------------------------- cleaning specification

NumCell(hundredths) == [kind |-> "num", v |-> Dec(hundredths)]

CommaCell(hundredths) == [kind |-> "comma", v |-> Dec(hundredths)]

BadCell == [kind |-> "bad", v |-> 0]

TimeCell(t) == [kind |-> "naive", v |-> t]

RawRow(home, away, time, c1, cx, c2) ==
    [home |-> home, away |-> away, time |-> time, c1 |-> c1, cx |-> cx, c2 |-> c2]

\* Rows a scraper's table can hold: duplicates of one fixture with different
\* odds, rows with an unparseable odds, time or missing team, odds outside
\* the configured range, and a fixture of its own.
RawRows ==
    {RawRow(Num(<<"A">>), Num(<<"X">>), TimeCell(1), NumCell(210), NumCell(340), NumCell(380)),
     RawRow(Num(<<"A">>), Num(<<"X">>), TimeCell(1), NumCell(195), NumCell(360), NumCell(410)),
     RawRow(Num(<<"A">>), Num(<<"X">>), TimeCell(1), NumCell(220), CommaCell(330), NumCell(380)),
     RawRow(Num(<<"A">>), Num(<<"X">>), TimeCell(1), BadCell, NumCell(350), NumCell(390)),
     RawRow(Num(<<"A">>), Num(<<"X">>), TimeCell(1), NumCell(200), BadCell, NumCell(420)),
     RawRow(Num(<<"A">>), Num(<<"X">>), TimeCell(1), NumCell(100), NumCell(340), NumCell(380)),
     RawRow(Num(<<"A">>), Num(<<"X">>), BadCell, NumCell(210), NumCell(340), NumCell(380)),
     RawRow(NaN, Num(<<"X">>), TimeCell(1), NumCell(210), NumCell(340), NumCell(380)),
     RawRow(Num(<<"A", " ">>), NaN, TimeCell(1), NumCell(400), NumCell(400), NumCell(400)),
     RawRow(Num(<<"B">>), Num(<<"X">>), TimeCell(2), NumCell(0), NumCell(340), NumCell(380)),
     RawRow(Num(<<"B">>), Num(<<"X">>), TimeCell(2), NumCell(210), NumCell(340), NumCell(12000))}

ColumnSets == {REQUIRED_COLUMNS,
               (REQUIRED_COLUMNS \ {"time"}) \cup {"kickoff"},
               REQUIRED_COLUMNS \ {"away"}}

InitClean ==
    /\ OutsideIdle
    /\ pc = "cleaning"
    /\ \E n \in 1..MaxRawRows : \E rows \in [1..n -> RawRows] : \E columns \in ColumnSets :
         all_bookies = << [name |-> Bookies[1], columns |-> columns, rows |-> rows] >>
    /\ clean_i = 0
    /\ cleaned_bookies = <<>>
    /\ threshold = FUZZY_THRESHOLD
    /\ ratio = <<>>
    /\ master_keys = <<>>
    /\ results_by_bookie = <<>>
    /\ master_columns = <<>>
    /\ log = {}
    /\ report = NoReport
    /\ archived = {}
    /\ bet = <<>>
    /\ stake_plan = <<>>
    /\ total_stake = TOTAL_STAKE
    /\ master_df = <<>>
    /\ sure_bets = <<>>

NextClean == clean_bookie

SpecClean == InitClean /\ [][NextClean]_vars

\* ------------------------------------------------- cleaning: the claims

Cleaned == pc = "cleaned"

\* The rows of the source as they stand after the conversions of lines
\* 222-227, before sorting and grouping.
OriginalRows(src) == Range(MapSeq(src.rows, convert_row))

HasKey(q, r) == q.home = Num(r.home) /\ q.away = r.away /\ q.time = Num(r.time)

SameOdds(q, r) == q.c1 = Num(r.o1) /\ q.cx = Num(r.ox) /\ q.c2 = Num(r.o2)

\* C10: every row that survives extract_relevant_columns is one of the
\* original rows with its key, and no original row with that key has a
\* smaller odds sum.
C10_SurvivorIsMinSumOriginal ==
    Cleaned =>
        \A d \in DOMAIN cleaned_bookies : \A i \in DOMAIN cleaned_bookies[d].rows :
            LET r == cleaned_bookies[d].rows[i]
                group == {q \in OriginalRows(all_bookies[1]) : HasKey(q, r)}
            IN  \E q \in group :
                    /\ SameOdds(q, r)
                    /\ \A o \in group :
                         o.sum_odds # NaN => Val(q.sum_odds) <= Val(o.sum_odds)

\* v/Scale lies within [MIN_ODDS/100, MAX_ODDS/100] and is positive.
Plausible(v) == v > 0 /\ MIN_ODDS * Scale <= v * 100 /\ v * 100 <= MAX_ODDS * Scale

UnionFn(fs) ==
    [x \in UNION {DOMAIN f : f \in fs} |-> (CHOOSE f \in fs : x \in DOMAIN f)[x]]

\* str.strip(): leading and trailing blanks removed.
Strip(s) ==
    LET solid == {i \in DOMAIN s : s[i] # " "}
    IN  IF solid = {} THEN <<>> ELSE SubSeq(s, Min(solid), Max(solid))

Digits == <<"0", "1", "2", "3", "4", "5", "6", "7", "8", "9">>

\* The text of a kickoff time.
str_time(t) == <<Digits[t + 1]>>

\* f"{r['home'].strip()} vs {r['away'].strip()} {r['time']}"
merge_key(r) ==
    Strip(r.home) \o <<" ", "v", "s", " ">> \o Strip(r.away) \o <<" ">> \o str_time(r.time)

keys_list(df) == MapSeq(df.rows, merge_key)

\* One row of process.cdist: the scores of a master key against a source's keys.
score_row(mk, keys) == [i \in DOMAIN keys |-> ratio[<<mk, keys[i]>>]]

argmax_last(scores) == Max({i \in DOMAIN scores : scores[i] = Max(Range(scores))})

\* np.argmax: the first index holding the maximum.
argmax(scores) == Min({i \in DOMAIN scores : scores[i] = Max(Range(scores))})

accepts_gt(best_score, t) == best_score > t

accepts_le(best_score, t) == best_score <= t

\* best_score[i] >= threshold
accepts(best_score, t) == best_score >= t

\* bookie_matches[mk]: the matched key, or None.
bookie_match(mk, keys, t) ==
    LET scores == score_row(mk, keys)
    IN  IF accepts(Max(Range(scores)), t) THEN Num(keys[argmax(scores)]) ELSE NaN

\* rows_by_bookie[bookie].loc[match_key]: the rows indexed by the key.
loc(df, key) == SelectSeq(df.rows, LAMBDA r : merge_key(r) = key)

\* The merged row of one master key.  A key that indexes several rows of a
\* source makes .loc return a frame, and the cells then hold dicts, not
\* numbers: such a source is listed in frames, its cells showing the last row.
master_row(mk, idx, results) ==
    LET hits == [b \in DOMAIN cleaned_bookies |->
                    IF results[b][mk] = NaN THEN <<>>
                    ELSE loc(cleaned_bookies[b], Val(results[b][mk]))]
        matched == {b \in DOMAIN hits : hits[b] # <<>>}
        last == [b \in matched |-> hits[b][Len(hits[b])]]
        base == IF matched = {} THEN NaN ELSE Num(last[Min(matched)])
    IN  [idx |-> idx,
         home |-> IF base = NaN THEN NaN ELSE Num(Val(base).home),
         away |-> IF base = NaN THEN NaN ELSE Num(Val(base).away),
         time |-> IF base = NaN THEN NaN ELSE Num(Val(base).time),
         cols |-> UnionFn({[c \in {ColName(cleaned_bookies[b].name, "_1"),
                                   ColName(cleaned_bookies[b].name, "_x"),
                                   ColName(cleaned_bookies[b].name, "_2")} |->
                             IF b \notin matched THEN NaN
                             ELSE IF c = ColName(cleaned_bookies[b].name, "_1")
                                  THEN Num(last[b].o1)
                             ELSE IF c = ColName(cleaned_bookies[b].name, "_x")
                                  THEN Num(last[b].ox)
                             ELSE Num(last[b].o2)] : b \in DOMAIN cleaned_bookies}),
         frames |-> {b \in matched : Len(hits[b]) > 1}]

orders_with_repeats(keys) == [1..Cardinality(keys) -> keys]

\* list(set(...)): the keys in some order.
orders_of(keys) ==
    {q \in [1..Cardinality(keys) -> keys] : \A i, j \in DOMAIN q : i # j => q[i] # q[j]}

full_multiway_fuzzy_merge ==
    /\ pc = "cleaned"
    /\ \E mks \in orders_of(UNION {Range(keys_list(cleaned_bookies[b])) :
                                     b \in DOMAIN cleaned_bookies}) :
         /\ master_keys' = mks
         /\ results_by_bookie' =
                [b \in DOMAIN cleaned_bookies |->
                    [mk \in Range(mks) |->
                        bookie_match(mk, keys_list(cleaned_bookies[b]), threshold)]]
         /\ master_df' = [i \in DOMAIN mks |->
                            master_row(mks[i], i - 1, results_by_bookie')]
    /\ pc' = "merged"
    /\ master_columns' = columns_of(MapSeq(cleaned_bookies, LAMBDA df : df.name))
    /\ UNCHANGED <<outside_vars, all_bookies, clean_i, cleaned_bookies, threshold, ratio, total_stake,
                   sure_bets, log, report, archived, bet, stake_plan>>

\* ----------------------------------------------- matching specification

Homes == {<<"A">>, <<"A", " ">>, <<"B">>, <<"a">>}

HomeRank(h) == CHOOSE k \in 1..4 : <<<<"A">>, <<"A", " ">>, <<"B">>, <<"a">>>>[k] = h

\* The cleaned row of source b for a home team: each row has odds of its own.
CleanRowOf(b, h) ==
    [home |-> h, away |-> <<"X">>, time |-> 1,
     o1 |-> Dec(200) + 4 * HomeRank(h) + b,
     ox |-> Dec(300) + 4 * HomeRank(h) + b,
     o2 |-> Dec(400) + 4 * HomeRank(h) + b]

\* A cleaned table: rows with distinct (home, away, time) in key order.
CleanTable(b, homes) ==
    MapSeq(SortKeys({<<h, <<"X">>, 1>> : h \in homes}), LAMBDA k : CleanRowOf(b, k[1]))

PossibleKeys == {merge_key(CleanRowOf(1, h)) : h \in Homes}

ScoreValues == {60, 80, 100}

Thresholds == {60, FUZZY_THRESHOLD, 100}

\* A scorer: 100 on identical strings, symmetric, otherwise any score.
Scorers ==
    {[p \in PossibleKeys \X PossibleKeys |-> IF p[1] = p[2] THEN 100 ELSE v[{p[1], p[2]}]] :
        v \in [{{k1, k2} : k1, k2 \in PossibleKeys} \ {{k} : k \in PossibleKeys}
                 -> ScoreValues]}

InitMerge ==
    /\ OutsideIdle
    /\ pc = "cleaned"
    /\ all_bookies = <<>>
    /\ clean_i = 0
    /\ \E h1, h2 \in {h \in SUBSET Homes : h # {} /\ Cardinality(h) <= MaxCleanRows} :
         cleaned_bookies = << [name |-> Bookies[1], rows |-> CleanTable(1, h1)],
                              [name |-> Bookies[2], rows |-> CleanTable(2, h2)] >>
    /\ threshold \in Thresholds
    /\ ratio \in Scorers
    /\ master_keys = <<>>
    /\ results_by_bookie = <<>>
    /\ master_columns = <<>>
    /\ log = {}
    /\ report = NoReport
    /\ archived = {}
    /\ bet = <<>>
    /\ stake_plan = <<>>
    /\ total_stake = TOTAL_STAKE
    /\ master_df = <<>>
    /\ sure_bets = <<>>

NextMerge == full_multiway_fuzzy_merge

SpecMerge == InitMerge /\ [][NextMerge]_vars

\* ------------------------------------------------- matching: the claims

Merged == pc = "merged"

SourceKeys(b) == Range(keys_list(cleaned_bookies[b]))

BestScore(mk, b) == Max({ratio[<<mk, k>>] : k \in SourceKeys(b)})

\* C7: a source is recorded as matched for a universe key exactly when the
\* best score of the key against the source's keys reaches the threshold,
\* and the recorded match is then a source key with that best score;
\* otherwise the source is recorded as absent.
C7_MatchIffBestScoreReachesThreshold ==
    Merged =>
        \A b \in DOMAIN cleaned_bookies : \A mk \in Range(master_keys) :
            /\ results_by_bookie[b][mk] # NaN <=> BestScore(mk, b) >= threshold
            /\ results_by_bookie[b][mk] # NaN =>
                 /\ Val(results_by_bookie[b][mk]) \in SourceKeys(b)
                 /\ ratio[<<mk, Val(results_by_bookie[b][mk])>>] = BestScore(mk, b)

C7_Witness ==
    /\ Merged
    /\ \E b \in DOMAIN cleaned_bookies : \E mk, mk2 \in Range(master_keys) :
         /\ results_by_bookie[b][mk] # NaN
         /\ Val(results_by_bookie[b][mk]) # mk
         /\ BestScore(mk, b) = threshold
         /\ results_by_bookie[b][mk2] = NaN

\* C8: when several keys of a source share the best score, the recorded
\* match is the one that comes first in the source's row order.
C8_TieGoesToFirstRow ==
    Merged =>
        \A b \in DOMAIN cleaned_bookies : \A mk \in Range(master_keys) :
            results_by_bookie[b][mk] # NaN =>
                LET keys == keys_list(cleaned_bookies[b])
                    first == Min({i \in DOMAIN keys : ratio[<<mk, keys[i]>>] = BestScore(mk, b)})
                IN  Val(results_by_bookie[b][mk]) = keys[first]

C8_Witness ==
    /\ Merged
    /\ \E b \in DOMAIN cleaned_bookies : \E mk \in Range(master_keys) :
         LET keys == keys_list(cleaned_bookies[b])
         IN  /\ results_by_bookie[b][mk] # NaN
             /\ \E i, j \in DOMAIN keys :
                  /\ i < j /\ keys[i] # keys[j]
                  /\ ratio[<<mk, keys[i]>>] = BestScore(mk, b)
                  /\ ratio[<<mk, keys[j]>>] = BestScore(mk, b)
                  /\ Val(results_by_bookie[b][mk]) = keys[i]

\* The accepted matches the matcher produces with threshold t on the
\* sources at hand.
AcceptedAt(t) ==
    UNION {LET keys == keys_list(cleaned_bookies[b])
           IN  {<<mk, b, bookie_match(mk, keys, t)>> : mk \in Range(master_keys)}
               \ {<<mk, b, NaN>> : mk \in Range(master_keys)} :
           b \in DOMAIN cleaned_bookies}

Recorded ==
    {<<mk, b, results_by_bookie[b][mk]>> :
        mk \in Range(master_keys), b \in DOMAIN cleaned_bookies}
    \ {<<mk, b, NaN>> : mk \in Range(master_keys), b \in DOMAIN cleaned_bookies}

\* C9: on the same sources, the accepted matches of a higher threshold are
\* among those of a lower one: the run's own matches are those of its
\* threshold, and for any two thresholds the matches of the higher are a
\* subset of the matches of the lower.
C9_ThresholdMonotonic ==
    Merged =>
        LET accepted == [t \in Thresholds |-> AcceptedAt(t)]
        IN  /\ Recorded = accepted[threshold]
            /\ \A t1, t2 \in Thresholds :
                  t1 <= t2 => accepted[t2] \subseteq accepted[t1]

C9_Witness ==
    /\ Merged
    /\ \E t \in Thresholds :
         /\ t > threshold
         /\ AcceptedAt(t) # Recorded
         /\ AcceptedAt(t) # {}

UniverseKeys == UNION {SourceKeys(b) : b \in DOMAIN cleaned_bookies}

PresentSources(row) ==
    {b \in DOMAIN cleaned_bookies :
        /\ row.cols[ColName(cleaned_bookies[b].name, "_1")] # NaN
        /\ row.cols[ColName(cleaned_bookies[b].name, "_x")] # NaN
        /\ row.cols[ColName(cleaned_bookies[b].name, "_2")] # NaN}

\* C15: for a threshold within 0..100, every merged event has a source
\* whose odds are present, and its home and kickoff are filled.
C15_EventHasContributingSource ==
    (Merged /\ threshold \in 0..100) =>
        \A i \in DOMAIN master_df :
            /\ PresentSources(master_df[i]) # {}
            /\ master_df[i].home # NaN
            /\ master_df[i].time # NaN

\* At threshold 100 an event is matched by its own source alone.
C15_Witness ==
    /\ Merged
    /\ threshold = 100
    /\ \E i \in DOMAIN master_df :
         /\ Cardinality(PresentSources(master_df[i])) = 1
         /\ master_df[i].home # NaN


\* C24: a universe key that is textually one of a source's keys is recorded
\* as matched to that very key of the source, at every threshold and
\* whatever the other keys of the source score.
C24_IdenticalKeyMatchesItself ==
    Merged =>
        \A b \in DOMAIN cleaned_bookies : \A mk \in Range(master_keys) :
            mk \in SourceKeys(b) => results_by_bookie[b][mk] = Num(mk)

\* --------------------------------------------------------------- main

\* The variables of the merge and the evaluation.
merge_vars == <<threshold, ratio, master_keys, results_by_bookie, master_columns, master_df,
                sure_bets>>

\* Lines 470-473: nothing loaded ends the run.
main_load ==
    /\ pc = "start"
    /\ IF all_bookies = <<>>
       THEN /\ log' = log \cup {Log("no_data", <<>>)}
            /\ pc' = "done"
       ELSE /\ log' = log
            /\ pc' = "cleaning"
    /\ UNCHANGED <<outside_vars, all_bookies, clean_i, cleaned_bookies, total_stake, merge_vars,
                   report, archived, bet, stake_plan>>

fewer_than_one(sources) == Len(sources) < 1

\* len(cleaned_bookies) < 2
fewer_than_two(sources) == Len(sources) < 2

\* Lines 496-502: with fewer than two cleaned sources the run ends, else
\* the sources are merged.
main_merge ==
    /\ pc = "cleaned"
    /\ IF fewer_than_two(cleaned_bookies)
       THEN /\ log' = log \cup {Log("too_few", <<>>)}
            /\ pc' = "done"
            /\ UNCHANGED <<outside_vars, all_bookies, clean_i, cleaned_bookies, total_stake, merge_vars,
                           report, archived, bet, stake_plan>>
       ELSE full_multiway_fuzzy_merge

\* Lines 503-508: an empty merge ends the run, else the events are evaluated.
main_evaluate ==
    /\ pc = "merged"
    /\ IF master_df = <<>>
       THEN /\ log' = log \cup {Log("no_merge", <<>>)}
            /\ pc' = "done"
            /\ UNCHANGED <<outside_vars, all_bookies, clean_i, cleaned_bookies, total_stake, merge_vars,
                           report, archived, bet, stake_plan>>
       ELSE calculate_implied_probabilities

\* Lines 509-573: the workbook is built and saved when there are sure bets;
\* wb.save can fail, which is logged.
main_report ==
    /\ pc = "evaluated"
    /\ IF sure_bets # <<>>
       THEN \E saved \in BOOLEAN :
               /\ report' = IF saved THEN [status |-> "saved", rows |-> sure_bets]
                             ELSE [status |-> "failed", rows |-> <<>>]
               /\ log' = IF saved THEN log ELSE log \cup {Log("save_failed", <<>>)}
       ELSE /\ report' = report
            /\ log' = log \cup {Log("no_sure_bets", <<>>)}
    /\ pc' = "archiving"
    /\ UNCHANGED <<outside_vars, all_bookies, clean_i, cleaned_bookies, total_stake, merge_vars,
                   archived, bet, stake_plan>>

\* The input files of the run, by source name.
input_files == {all_bookies[i].name : i \in DOMAIN all_bookies}

\* Lines 575-590: every input file is handed to archive_file, which moves
\* it or fails and logs the failure.
main_archive ==
    /\ pc = "archiving"
    /\ \E moved \in SUBSET input_files :
         /\ archived' = moved
         /\ log' = log \cup {Log("archive_failed", f) : f \in input_files \ moved}
    /\ pc' = "done"
    /\ UNCHANGED <<outside_vars, all_bookies, clean_i, cleaned_bookies, total_stake, merge_vars,
                   report, bet, stake_plan>>

\* ------------------------------------------------- main: specification

\* The names of the source files a run can find.
SourceNames == Bookies \o << <<"maxbet">> >>

FullOdds == <<NumCell(400), NumCell(400), NumCell(400)>>

PlainOdds == <<NumCell(210), NumCell(340), NumCell(380)>>

HighOdds == <<NumCell(410), NumCell(420), NumCell(430)>>

FixtureRow(home, odds) ==
    RawRow(Num(home), Num(<<"X">>), TimeCell(1), odds[1], odds[2], odds[3])

\* Tables a source file can hold: a fixture, the same fixture at other odds,
\* the fixture twice under a padded name, a table without the away column, a
\* table whose only row has a zero odds, and another fixture.
SourceTables ==
    {[columns |-> REQUIRED_COLUMNS, rows |-> <<FixtureRow(<<"A">>, FullOdds)>>],
     [columns |-> (REQUIRED_COLUMNS \ {"time"}) \cup {"kickoff"},
      rows |-> <<FixtureRow(<<"A">>, PlainOdds)>>],
     [columns |-> REQUIRED_COLUMNS,
      rows |-> <<FixtureRow(<<"A">>, FullOdds), FixtureRow(<<"A", " ">>, HighOdds)>>],
     [columns |-> REQUIRED_COLUMNS \ {"away"}, rows |-> <<FixtureRow(<<"A">>, FullOdds)>>],
     [columns |-> REQUIRED_COLUMNS,
      rows |-> <<FixtureRow(<<"B">>, <<NumCell(0), NumCell(340), NumCell(380)>>)>>],
     [columns |-> REQUIRED_COLUMNS, rows |-> <<FixtureRow(<<"B">>, HighOdds)>>]}

NoFile == [columns |-> {}, rows |-> <<>>]

\* The loaded sources for a choice of one table or no file per name.
Loaded(pick) ==
    LET present == SelectSeq([i \in DOMAIN SourceNames |-> i], LAMBDA i : pick[i] # NoFile)
    IN  [k \in DOMAIN present |->
            [name |-> SourceNames[present[k]], columns |-> pick[present[k]].columns,
             rows |-> pick[present[k]].rows]]

\* Scorers that differ in the score of the two fixtures' keys.
MainScorers ==
    {sc \in Scorers :
        \A p \in DOMAIN sc :
            (p[1] # p[2] /\ {p[1], p[2]} # {merge_key(CleanRowOf(1, <<"A">>)),
                                            merge_key(CleanRowOf(1, <<"B">>))})
                => sc[p] = 60}

InitMain ==
    /\ OutsideIdle
    /\ pc = "start"
    /\ \E pick \in [DOMAIN SourceNames -> SourceTables \cup {NoFile}] :
         all_bookies = Loaded(pick)
    /\ clean_i = 0
    /\ cleaned_bookies = <<>>
    /\ threshold = FUZZY_THRESHOLD
    /\ ratio \in MainScorers
    /\ master_keys = <<>>
    /\ results_by_bookie = <<>>
    /\ total_stake = TOTAL_STAKE
    /\ master_columns = <<>>
    /\ master_df = <<>>
    /\ sure_bets = <<>>
    /\ log = {}
    /\ report = NoReport
    /\ archived = {}
    /\ bet = <<>>
    /\ stake_plan = <<>>

NextMain ==
    \/ main_load
    \/ clean_bookie
    \/ main_merge
    \/ main_evaluate
    \/ main_report
    \/ main_archive

SpecMain == InitMain /\ [][NextMain]_vars

\* ------------------------------------------------------ main: the claims

\* The source's table lacks a required column even with kickoff read as time.
LacksColumn(src) ==
    \E c \in REQUIRED_COLUMNS :
        c \notin src.columns /\ ~(c = "time" /\ "kickoff" \in src.columns)

\* A row of the table has a home team, a time and three plausible odds.
HasPlausibleRow(src) ==
    \E k \in DOMAIN src.rows :
        LET r == src.rows[k]
        IN  /\ r.home # NaN /\ r.time.kind \in {"naive", "tz"}
            /\ \A c \in {r.c1, r.cx, r.c2} : c.kind \in {"num", "comma"} /\ Plausible(c.v)

CleanedNames == {cleaned_bookies[d].name : d \in DOMAIN cleaned_bookies}

MergedColumnNames ==
    {n \in Range(SourceNames) :
        \/ \E k \in DOMAIN master_columns, sfx \in {"_1", "_x", "_2"} :
              master_columns[k] = ColName(n, sfx)
        \/ \E i \in DOMAIN master_df, sfx \in {"_1", "_x", "_2"} :
              ColName(n, sfx) \in DOMAIN master_df[i].cols}

\* C12: a source that lacks a required column after the column mapping is
\* reported with a missing-column error, gives no rows and no odds columns
\* to the merged result, and the sources after it are still normalized:
\* the loop ends only when every source has been visited, and every later
\* source with its columns and a plausible row is kept.
C12_MissingColumnSourceSkipped ==
    /\ pc \notin {"start", "cleaning"} /\ all_bookies # <<>> => clean_i = Len(all_bookies)
    /\ \A i \in DOMAIN all_bookies :
         (i <= clean_i /\ LacksColumn(all_bookies[i])) =>
            /\ Log("missing_columns", all_bookies[i].name) \in log
            /\ all_bookies[i].name \notin CleanedNames
            /\ all_bookies[i].name \notin MergedColumnNames
            /\ \A j \in DOMAIN all_bookies :
                 (i < j /\ j <= clean_i /\ ~LacksColumn(all_bookies[j])
                    /\ HasPlausibleRow(all_bookies[j]))
                 => all_bookies[j].name \in CleanedNames

\* The first source lacks a column and the two after it are merged.
C12_Witness ==
    /\ pc = "merged"
    /\ Len(all_bookies) = 3
    /\ LacksColumn(all_bookies[1])
    /\ Len(cleaned_bookies) = 2
    /\ master_df # <<>>

ValidSources ==
    {i \in DOMAIN all_bookies :
        ~LacksColumn(all_bookies[i]) /\ HasPlausibleRow(all_bookies[i])}

Matched == master_keys # <<>>

LacksOnlyAway(src) ==
    /\ "away" \notin src.columns
    /\ \A c \in REQUIRED_COLUMNS \ {"away"} :
         c \in src.columns \/ (c = "time" /\ "kickoff" \in src.columns)

\* C23: a source with home, kickoff time and the three odds but no away
\* column is normalized and handed to matching, not skipped for the
\* missing column.
C23_SourceWithoutAwayTakesPart ==
    \A i \in DOMAIN all_bookies :
        (i <= clean_i /\ LacksOnlyAway(all_bookies[i]) /\ HasPlausibleRow(all_bookies[i])) =>
            /\ all_bookies[i].name \in CleanedNames
            /\ Log("missing_columns", all_bookies[i].name) \notin log

\* C29: in a cleaned source no two rows have the same merge key, so a
\* matched key looks up exactly one row of the source.
C29_MergeKeysUniqueInSource ==
    \A d \in DOMAIN cleaned_bookies :
        /\ \A i, j \in DOMAIN cleaned_bookies[d].rows :
             i # j => merge_key(cleaned_bookies[d].rows[i])
                        # merge_key(cleaned_bookies[d].rows[j])
        /\ \A i \in DOMAIN master_df : d \notin master_df[i].frames

\* C16: no input file is archived unless the report was saved earlier in
\* the run.
C16_ArchiveOnlyAfterSavedReport ==
    archived # {} => report.status = "saved"

\* The log lines that say why no report was produced.
Diagnostics == {"no_data", "too_few", "no_merge", "missing_odds_columns", "no_sure_bets",
                "save_failed"}

Ended == pc \in {"done", "raised"}

\* C17: a run that has ended has written a report holding a sure bet, or has
\* logged why there is none.
C17_ReportOrDiagnostic ==
    Ended =>
        \/ report.status = "saved" /\ report.rows # <<>>
        \/ \E tag \in Diagnostics : Log(tag, <<>>) \in log

\* C18: a run of two or more valid sources whose evaluation finds no event
\* with implied probability below 1 ends without an error and leaves a
\* report with no sure-bet rows.
C18_EmptyReportWhenNoSureBet ==
    (Ended /\ Cardinality(ValidSources) >= 2 /\ sure_bets = <<>>
        /\ \A i \in DOMAIN master_df :
             "best_1" \in DOMAIN master_df[i] /\ ~is_sure_bet(master_df[i])) =>
        /\ pc = "done"
        /\ report.status = "saved"
        /\ report.rows = <<>>

\* ------------------------------------------------ evaluator specification

\* Odds triples (1, x, 2) a cleaned source row can carry.
OddsTriples == {<<Dec(210), Dec(340), Dec(380)>>, <<Dec(195), Dec(360), Dec(410)>>,
                <<Dec(400), Dec(400), Dec(400)>>, <<Dec(300), Dec(300), Dec(300)>>,
                <<Dec(410), Dec(420), Dec(430)>>}

TotalStakes == {TOTAL_STAKE, 37}

Absent == <<>>

\* A merged row's odds columns from each source's matched odds (or Absent).
RowCols(pick) ==
    [c \in Range(columns_of(Bookies)) |->
        LET k == CHOOSE k \in DOMAIN columns_of(Bookies) : columns_of(Bookies)[k] = c
            b == ((k - 1) \div 3) + 1
            o == ((k - 1) % 3) + 1
        IN  IF pick[b] = Absent THEN NaN ELSE Num(pick[b][o])]

MergedRows ==
    {[idx |-> 0, home |-> <<"A">>, away |-> <<"X">>, time |-> 1, cols |-> RowCols(pick),
      frames |-> {}] :
        pick \in {p \in [DOMAIN Bookies -> OddsTriples \cup {Absent}] :
                    \E b \in DOMAIN Bookies : p[b] # Absent}}

Reindex(s) == [i \in DOMAIN s |-> [s[i] EXCEPT !.idx = i - 1]]

InitEval ==
    /\ OutsideIdle
    /\ pc = "merged"
    /\ all_bookies = <<>>
    /\ clean_i = 0
    /\ cleaned_bookies = <<>>
    /\ threshold = FUZZY_THRESHOLD
    /\ ratio = <<>>
    /\ master_keys = <<>>
    /\ results_by_bookie = <<>>
    /\ master_columns = columns_of(Bookies)
    /\ log = {}
    /\ report = NoReport
    /\ archived = {}
    /\ bet = <<>>
    /\ stake_plan = <<>>
    /\ total_stake \in TotalStakes
    /\ \E n \in 1..MaxEvents :
         master_df \in {Reindex(s) : s \in [1..n -> MergedRows]}
    /\ sure_bets = <<>>

NextEval == calculate_implied_probabilities

SpecEval == InitEval /\ [][NextEval]_vars

\* --------------------------------------- source names specification

\* Source identifiers (file base names): takmicenje_xlivebet, which the
\* xlivebet scraper writes, holds "_x" itself.
NamedBookies == << <<"mozzart">>, <<"takmicenje", "_x", "livebet">> >>

\* A merged row's odds columns for the sources `names`.
RowColsOf(names, pick) ==
    [c \in Range(columns_of(names)) |->
        LET k == CHOOSE k \in DOMAIN columns_of(names) : columns_of(names)[k] = c
            b == ((k - 1) \div 3) + 1
            o == ((k - 1) % 3) + 1
        IN  IF pick[b] = Absent THEN NaN ELSE Num(pick[b][o])]

NamedRows ==
    {[idx |-> 0, home |-> <<"A">>, away |-> <<"X">>, time |-> 1,
      cols |-> RowColsOf(NamedBookies, pick), frames |-> {}] :
        pick \in {p \in [DOMAIN NamedBookies -> OddsTriples \cup {Absent}] :
                    \E b \in DOMAIN NamedBookies : p[b] # Absent}}

InitNames ==
    /\ OutsideIdle
    /\ pc = "merged"
    /\ all_bookies = <<>>
    /\ clean_i = 0
    /\ cleaned_bookies = <<>>
    /\ threshold = FUZZY_THRESHOLD
    /\ ratio = <<>>
    /\ master_keys = <<>>
    /\ results_by_bookie = <<>>
    /\ master_columns = columns_of(NamedBookies)
    /\ log = {}
    /\ report = NoReport
    /\ archived = {}
    /\ bet = <<>>
    /\ stake_plan = <<>>
    /\ total_stake = TOTAL_STAKE
    /\ \E n \in 1..MaxEvents :
         master_df \in {Reindex(t) : t \in [1..n -> NamedRows]}
    /\ sure_bets = <<>>

NextNames == calculate_implied_probabilities

SpecNames == InitNames /\ [][NextNames]_vars

\* The identifiers of the sources of the run, from the merged columns.
PresentNames == {SubSeq(master_columns[k], 1, Len(master_columns[k]) - 1) :
                    k \in DOMAIN master_columns}

IsSourceWithOdds(cell, row, sfx, best) ==
    /\ cell # NaN
    /\ Val(cell) \in PresentNames
    /\ row.cols[ColName(Val(cell), sfx)] = best

\* C26: for every event of the output and each outcome, the recorded source
\* is the identifier of a source of the run whose odds for the outcome on
\* that event are the recorded best odds.
C26_BestSourceIsAPresentSource ==
    pc = "evaluated" =>
        \A k \in DOMAIN sure_bets :
            LET bet_row == sure_bets[k]
                row == master_df[bet_row.idx + 1]
            IN  /\ IsSourceWithOdds(bet_row.best_1_source, row, "_1", bet_row.best_1)
                /\ IsSourceWithOdds(bet_row.best_x_source, row, "_x", bet_row.best_x)
                /\ IsSourceWithOdds(bet_row.best_2_source, row, "_2", bet_row.best_2)

\* ------------------------------------------- stake setting specification

\* Values the --total-stake option accepts: type=float, no range check.
StakeArgs == {TOTAL_STAKE, 0, 0 - TOTAL_STAKE}

InitStake ==
    /\ OutsideIdle
    /\ pc = "merged"
    /\ all_bookies = <<>>
    /\ clean_i = 0
    /\ cleaned_bookies = <<>>
    /\ threshold = FUZZY_THRESHOLD
    /\ ratio = <<>>
    /\ master_keys = <<>>
    /\ results_by_bookie = <<>>
    /\ master_columns = columns_of(Bookies)
    /\ log = {}
    /\ report = NoReport
    /\ archived = {}
    /\ bet = <<>>
    /\ stake_plan = <<>>
    /\ total_stake \in StakeArgs
    /\ \E n \in 1..MaxEvents :
         master_df \in {Reindex(s) : s \in [1..n -> MergedRows]}
    /\ sure_bets = <<>>

NextStake ==
    \/ calculate_implied_probabilities
    \/ main_report

SpecStake == InitStake /\ [][NextStake]_vars

\* C19: an event for which beat_bookies returned the all-zero plan is in
\* neither the sure-bet output nor the report.
C19_ZeroPlanEventNotInOutput ==
    /\ \A i \in DOMAIN sure_bets : ~IsZeroPlan(sure_bets[i])
    /\ \A i \in DOMAIN report.rows : ~IsZeroPlan(report.rows[i])

\* ------------------------------------------------ evaluator: the claims

Evaluated == pc = "evaluated"

InOutput(idx) == \E j \in DOMAIN sure_bets : sure_bets[j].idx = idx

\* The cells of one outcome of a merged row, one per source.
OutcomeCells(row, suffix) == {row.cols[ColName(Bookies[b], suffix)] : b \in DOMAIN Bookies}

Contributing(row) == {b \in DOMAIN Bookies : row.cols[ColName(Bookies[b], "_1")] # NaN}

Determined(row) == row.best_1 # NaN /\ row.best_x # NaN /\ row.best_2 # NaN

\* 1/a + 1/b + 1/c < 1 for odds a, b, c in units of 1/Scale.
RecipSumBelowOne(a, b, c) == Scale * (b * c + a * c + a * b) < a * b * c

MaxCell(cells) == IF UNION cells = {} THEN NaN ELSE Num(Max(UNION cells))

\* C1: after evaluation, each outcome's best odds of every merged event is
\* the maximum of that outcome's odds over the sources that have odds for it.
C1_BestIsMaximum ==
    Evaluated =>
        \A i \in DOMAIN master_df :
            /\ master_df[i].best_1 = MaxCell(OutcomeCells(master_df[i], "_1"))
            /\ master_df[i].best_x = MaxCell(OutcomeCells(master_df[i], "_x"))
            /\ master_df[i].best_2 = MaxCell(OutcomeCells(master_df[i], "_2"))

\* C2: a merged event whose three best odds are determined is in the sure-bet
\* output if and only if 1/best_1 + 1/best_x + 1/best_2 < 1.
C2_OutputIffImpliedBelowOne ==
    Evaluated =>
        \A i \in DOMAIN master_df :
            Determined(master_df[i]) =>
                (InOutput(master_df[i].idx) <=>
                    RecipSumBelowOne(Val(master_df[i].best_1), Val(master_df[i].best_x),
                                     Val(master_df[i].best_2)))

C2_Witness ==
    /\ Evaluated
    /\ \E i, k \in DOMAIN master_df :
        /\ Determined(master_df[i]) /\ InOutput(master_df[i].idx)
        /\ Determined(master_df[k]) /\ ~InOutput(master_df[k].idx)
        /\ Cardinality(Contributing(master_df[k])) = 2

\* C3: for every event of the sure-bet output, the three stakes are
\* non-negative and sum to the total stake.
C3_StakesSumToTotal ==
    Evaluated =>
        \A j \in DOMAIN sure_bets :
            /\ sure_bets[j].Stake1.den > 0 /\ sure_bets[j].Stake1.num >= 0
            /\ sure_bets[j].Stake2.den > 0 /\ sure_bets[j].Stake2.num >= 0
            /\ sure_bets[j].Stake3.den > 0 /\ sure_bets[j].Stake3.num >= 0
            /\ REq(RAdd(RAdd(sure_bets[j].Stake1, sure_bets[j].Stake2), sure_bets[j].Stake3),
                   Frac(total_stake, 1))

C3_Witness ==
    /\ Evaluated
    /\ \E j \in DOMAIN sure_bets :
        /\ sure_bets[j].Stake1.num > 0
        /\ sure_bets[j].best_1 # sure_bets[j].best_x

\* C4: for every event of the sure-bet output the three profits are equal,
\* and equal total_stake * (1/implied - 1) with implied the sum of the
\* reciprocals of the three best odds.
C4_EqualProfit ==
    Evaluated =>
        \A j \in DOMAIN sure_bets :
            LET a == Val(sure_bets[j].best_1)
                b == Val(sure_bets[j].best_x)
                c == Val(sure_bets[j].best_2)
                impliedNum == Scale * (b * c + a * c + a * b)
                impliedDen == a * b * c
            IN  /\ REq(sure_bets[j].Profit1, sure_bets[j].Profit2)
                /\ REq(sure_bets[j].Profit2, sure_bets[j].Profit3)
                /\ REq(sure_bets[j].Profit1,
                       Frac(total_stake * (impliedDen - impliedNum), impliedNum))

C4_Witness ==
    /\ Evaluated
    /\ \E j \in DOMAIN sure_bets :
        /\ sure_bets[j].Profit1.num > 0
        /\ sure_bets[j].best_1 # sure_bets[j].best_x
        /\ sure_bets[j].best_x # sure_bets[j].best_2

\* The odds the one contributing source of a merged row gives.
OwnOdds(row, suffix) == Val(row.cols[ColName(Bookies[CHOOSE b \in Contributing(row) : TRUE], suffix)])

\* C5 as claimed: an event with exactly one contributing source is never in
\* the sure-bet output.
C5_SingleSourceNeverOutput ==
    Evaluated =>
        \A i \in DOMAIN master_df :
            Cardinality(Contributing(master_df[i])) = 1 => ~InOutput(master_df[i].idx)

\* C5 amended: an event with exactly one contributing source is in the
\* sure-bet output exactly when that source's own three odds have a
\* reciprocal sum below 1; it never is when the source's book is fair or
\* loaded (reciprocal sum >= 1).
C5_SingleSourceOutputIffOwnBookBelowOne ==
    Evaluated =>
        \A i \in DOMAIN master_df :
            Cardinality(Contributing(master_df[i])) = 1 =>
                (InOutput(master_df[i].idx) <=>
                    RecipSumBelowOne(OwnOdds(master_df[i], "_1"), OwnOdds(master_df[i], "_x"),
                                     OwnOdds(master_df[i], "_2")))

C5_Witness ==
    /\ Evaluated
    /\ \E i, k \in DOMAIN master_df :
        /\ Cardinality(Contributing(master_df[i])) = 1
        /\ ~RecipSumBelowOne(OwnOdds(master_df[i], "_1"), OwnOdds(master_df[i], "_x"),
                             OwnOdds(master_df[i], "_2"))
        /\ ~InOutput(master_df[i].idx)
        /\ Cardinality(Contributing(master_df[k])) = 1
        /\ InOutput(master_df[k].idx)

\* |f - hundredths/100| <= 0.01
Near(f, hundredths) ==
    /\ 100 * f.num - hundredths * f.den <= f.den
    /\ hundredths * f.den - 100 * f.num <= f.den

ExampleA == <<Dec(210), Dec(340), Dec(380)>>

ExampleB == <<Dec(195), Dec(360), Dec(410)>>

IsExample(row) ==
    /\ row.cols[ColName(Bookies[1], "_1")] = Num(ExampleA[1])
    /\ row.cols[ColName(Bookies[1], "_x")] = Num(ExampleA[2])
    /\ row.cols[ColName(Bookies[1], "_2")] = Num(ExampleA[3])
    /\ row.cols[ColName(Bookies[2], "_1")] = Num(ExampleB[1])
    /\ row.cols[ColName(Bookies[2], "_x")] = Num(ExampleB[2])
    /\ row.cols[ColName(Bookies[2], "_2")] = Num(ExampleB[3])

\* C6: the event with source odds (2.10, 3.40, 3.80) and (1.95, 3.60, 4.10)
\* gets best odds (2.10, 3.60, 4.10), is a sure bet, and for total stake 100
\* has stakes (47.67, 27.83, 24.50) and profit 0.21 on every outcome, each
\* to within 0.01.
C6_WorkedExample ==
    (Evaluated /\ total_stake = 100) =>
        \A i \in DOMAIN master_df :
            IsExample(master_df[i]) =>
                /\ master_df[i].best_1 = Num(Dec(210))
                /\ master_df[i].best_x = Num(Dec(360))
                /\ master_df[i].best_2 = Num(Dec(410))
                /\ \E j \in DOMAIN sure_bets :
                    /\ sure_bets[j].idx = master_df[i].idx
                    /\ Near(sure_bets[j].Stake1, 4767)
                    /\ Near(sure_bets[j].Stake2, 2783)
                    /\ Near(sure_bets[j].Stake3, 2450)
                    /\ Near(sure_bets[j].Profit1, 21)
                    /\ Near(sure_bets[j].Profit2, 21)
                    /\ Near(sure_bets[j].Profit3, 21)

\* ------------------------------------ f_surebet.py: the concurrent loader

\* A file of the data folders: the source identifier is the base name.
File(name, ext) == [name |-> name, ext |-> ext]

FileIds ==
    {File(Bookies[1], "pkl"), File(Bookies[2], "pkl"),
     File(Bookies[1], "xlsx"), File(Bookies[1], "XLSX"), File(Bookies[2], "xlsx")}

\* A row of a loaded table, already in the canonical columns.
FastRow(home, time, odds) ==
    [home |-> home, time |-> time, o1 |-> odds[1], ox |-> odds[2], o2 |-> odds[3]]

\* What each file holds when it can be read.
DataOf(f) ==
    IF f = File(Bookies[1], "pkl")
    THEN << FastRow(<<"A">>, 1, <<Dec(400), Dec(400), Dec(400)>>) >>
    ELSE IF f = File(Bookies[2], "pkl")
    THEN << FastRow(<<"A">>, 1, <<Dec(410), Dec(420), Dec(430)>>),
            FastRow(<<"B">>, 1, <<Dec(400), Dec(400), Dec(400)>>) >>
    ELSE IF f = File(Bookies[1], "xlsx")
    THEN << FastRow(<<"A">>, 1, <<Dec(210), Dec(340), Dec(380)>>) >>
    ELSE IF f = File(Bookies[1], "XLSX")
    THEN << FastRow(<<"B">>, 1, <<Dec(410), Dec(420), Dec(430)>>) >>
    ELSE << FastRow(<<"B">>, 1, <<Dec(300), Dec(300), Dec(300)>>) >>

\* A file is readable with rows, readable and empty, or unreadable.
Contents(f) ==
    {[ok |-> TRUE, rows |-> DataOf(f)], [ok |-> TRUE, rows |-> <<>>],
     [ok |-> FALSE, rows |-> DataOf(f)]}

\* glob.glob(os.path.join(folder_path, "*.pkl")), and "*.xlsx" + "*.XLSX",
\* on a file system that tells the two spellings apart.
glob(kind) ==
    {f \in DOMAIN files : IF kind = "pickle" THEN f.ext = "pkl"
                          ELSE f.ext \in {"xlsx", "XLSX"}}

load_file_keeping_failed(f) == <<f.name, files[f].rows>>

\* load_pickle_file: (bookie_name, df), with an empty frame on any error.
load_pickle_file(f) == <<f.name, IF files[f].ok THEN files[f].rows ELSE <<>> >>

\* load_excel_file: the same for a workbook.
load_excel_file(f) == <<f.name, IF files[f].ok THEN files[f].rows ELSE <<>> >>

\* d[k] = v on a dict, which keeps insertion order.
dict_set(d, k, v) ==
    IF \E i \in DOMAIN d : d[i].name = k
    THEN [i \in DOMAIN d |-> IF d[i].name = k THEN [name |-> k, rows |-> v] ELSE d[i]]
    ELSE Append(d, [name |-> k, rows |-> v])

RECURSIVE dict_update(_, _)
\* {**a, **b}
dict_update(a, b) ==
    IF b = <<>> THEN a
    ELSE dict_update(dict_set(a, b[1].name, b[1].rows), Tail(b))

dict_keys(d) == {d[i].name : i \in DOMAIN d}

\* The loader that is running, from the position of main.
kind_now == IF pc \in {"load_pickle", "wait_pickle"} THEN "pickle" ELSE "excel"

after_loader == IF kind_now = "pickle" THEN "load_excel" ELSE "loaded"

pipeline_vars == <<clean_i, cleaned_bookies, threshold, ratio, master_keys, results_by_bookie,
                   total_stake, master_columns, master_df, sure_bets, report, archived, bet,
                   stake_plan, apart_vars>>

\* Lines 82-88 / 100-109: the files are listed; with none the loader warns
\* and returns the empty dict, else one task per file is submitted.
submit_files ==
    /\ pc \in {"load_pickle", "load_excel"}
    /\ IF glob(kind_now) = {}
       THEN /\ log' = log \cup {Log("no_files", <<kind_now>>)}
            /\ pickle_bookies' = IF kind_now = "pickle" THEN <<>> ELSE pickle_bookies
            /\ excel_bookies' = IF kind_now = "excel" THEN <<>> ELSE excel_bookies
            /\ pc' = after_loader
            /\ UNCHANGED <<futures, bookies>>
       ELSE /\ futures' = [f \in glob(kind_now) |-> "running"]
            /\ bookies' = <<>>
            /\ pc' = IF kind_now = "pickle" THEN "wait_pickle" ELSE "wait_excel"
            /\ UNCHANGED <<log, pickle_bookies, excel_bookies>>
    /\ UNCHANGED <<files, writes, all_bookies, pipeline_vars>>

\* A worker thread ends its load_pickle_file / load_excel_file call.
worker_finish ==
    /\ pc \in {"wait_pickle", "wait_excel"}
    /\ \E f \in DOMAIN futures :
         /\ futures[f] = "running"
         /\ futures' = [futures EXCEPT ![f] = "finished"]
         /\ log' = IF files[f].ok THEN log ELSE log \cup {Log("load_failed", f.name)}
    /\ UNCHANGED <<pc, files, bookies, pickle_bookies, excel_bookies, writes, all_bookies,
                   pipeline_vars>>

\* Lines 91-94 / 112-115: as_completed hands over a finished future, and a
\* non-empty frame is stored under its bookie name.
collect_result ==
    /\ pc \in {"wait_pickle", "wait_excel"}
    /\ \E f \in DOMAIN futures :
         /\ futures[f] = "finished"
         /\ futures' = [futures EXCEPT ![f] = "collected"]
         /\ LET result == IF kind_now = "pickle" THEN load_pickle_file(f)
                          ELSE load_excel_file(f)
            IN  IF result[2] # <<>>
                THEN /\ bookies' = dict_set(bookies, result[1], result[2])
                     /\ writes' = [writes EXCEPT ![<<kind_now, result[1]>>] = @ + 1]
                ELSE UNCHANGED <<bookies, writes>>
    /\ UNCHANGED <<pc, files, pickle_bookies, excel_bookies, log, all_bookies, pipeline_vars>>

\* Line 96 / 117: return bookies, once as_completed is exhausted.
loader_return ==
    /\ pc \in {"wait_pickle", "wait_excel"}
    /\ \A f \in DOMAIN futures : futures[f] = "collected"
    /\ pickle_bookies' = IF kind_now = "pickle" THEN bookies ELSE pickle_bookies
    /\ excel_bookies' = IF kind_now = "excel" THEN bookies ELSE excel_bookies
    /\ pc' = after_loader
    /\ UNCHANGED <<files, futures, bookies, writes, log, all_bookies, pipeline_vars>>

\* f_surebet.main lines 439-445: all_bookies = {**pickle_bookies,
\* **excel_bookies}; with nothing loaded the run ends.
combine_bookies ==
    /\ pc = "loaded"
    /\ all_bookies' = dict_update(pickle_bookies, excel_bookies)
    /\ writes' = [k \in DOMAIN writes |->
                    IF k[1] # "all" THEN writes[k]
                    ELSE (IF k[2] \in dict_keys(pickle_bookies) THEN 1 ELSE 0)
                         + (IF k[2] \in dict_keys(excel_bookies) THEN 1 ELSE 0)]
    /\ IF all_bookies' = <<>>
       THEN /\ log' = log \cup {Log("no_data", <<>>)}
            /\ pc' = "done"
       ELSE /\ log' = log
            /\ pc' = "combined"
    /\ UNCHANGED <<files, futures, bookies, pickle_bookies, excel_bookies, pipeline_vars>>

\* ------------------------------- f_surebet.py: cleaning and merging

\* f"{r['home']} {r['time']}"
home_time(r) == r.home \o <<" ">> \o str_time(r.time)

\* f_surebet.extract_relevant_columns on a table in the canonical columns:
\* of the rows of one (home, time) the one with the least sum of odds stays,
\* groups come in key order, rows with an odds not above 0 are dropped.
f_extract_relevant_columns(rows) ==
    LET keys == SortKeys({<<rows[i].home, <<>>, rows[i].time>> : i \in DOMAIN rows})
        sum_odds(i) == rows[i].o1 + rows[i].ox + rows[i].o2
        members(k) == {i \in DOMAIN rows : rows[i].home = k[1] /\ rows[i].time = k[3]}
        first(k) == CHOOSE i \in members(k) :
                        \A j \in members(k) :
                            sum_odds(i) < sum_odds(j) \/ (sum_odds(i) = sum_odds(j) /\ i <= j)
        grouped == [g \in DOMAIN keys |-> rows[first(keys[g])]]
    IN  SelectSeq(grouped, LAMBDA r : r.o1 > 0 /\ r.ox > 0 /\ r.o2 > 0)

\* main, step 2: every loaded table is cleaned, the non-empty ones are kept
\* in the order of all_bookies.
clean_all(loaded) ==
    SelectSeq([i \in DOMAIN loaded |->
                  [name |-> loaded[i].name,
                   rows |-> f_extract_relevant_columns(loaded[i].rows)]],
              LAMBDA d : d.rows # <<>>)

\* The odds cells a source adds to a merged row.
odds_cells(name, r) ==
    [c \in {ColName(name, "_1"), ColName(name, "_x"), ColName(name, "_2")} |->
        IF r = NaN THEN NaN
        ELSE IF c = ColName(name, "_1") THEN Num(Val(r).o1)
        ELSE IF c = ColName(name, "_x") THEN Num(Val(r).ox)
        ELSE Num(Val(r).o2)]

\* process.extractOne(key, choices, scorer): the first choice with the
\* highest score, as a row index.
extractOne(key, df_new) ==
    LET scores == [i \in DOMAIN df_new |-> ratio[<<key, home_time(df_new[i])>>]]
    IN  argmax(scores)

\* fuzzy_merge_two_dfs: every row of the master gets the odds of the row of
\* df_new with the same key, else of the best-scoring row when its score
\* reaches the threshold, else empty cells.  No row is added.
fuzzy_merge_two_dfs(df_master, df_new, new_bookie_name, t) ==
    [m \in DOMAIN df_master |->
        LET key == Val(df_master[m].home) \o <<" ">> \o str_time(Val(df_master[m].time))
            exact == {i \in DOMAIN df_new : home_time(df_new[i]) = key}
            best == extractOne(key, df_new)
            row_n == IF exact # {} THEN Num(df_new[Max(exact)])
                     ELSE IF ratio[<<key, home_time(df_new[best])>>] >= t
                          THEN Num(df_new[best])
                     ELSE NaN
        IN  [df_master[m] EXCEPT
                !.cols = UnionFn({df_master[m].cols, odds_cells(new_bookie_name, row_n)})]]

RECURSIVE merge_rest(_, _, _)
merge_rest(df_master, items, t) ==
    IF items = <<>> THEN df_master
    ELSE merge_rest(fuzzy_merge_two_dfs(df_master, items[1].rows, items[1].name, t),
                    Tail(items), t)

\* multiway_fuzzy_merge: the first source is the master, the others are
\* merged into it one after the other.
multiway_fuzzy_merge(items, t) ==
    IF items = <<>> THEN <<>>
    ELSE merge_rest([i \in DOMAIN items[1].rows |->
                        [idx |-> i - 1,
                         home |-> Num(items[1].rows[i].home),
                         away |-> NaN,
                         time |-> Num(items[1].rows[i].time),
                         cols |-> odds_cells(items[1].name, Num(items[1].rows[i])),
                         frames |-> {}]],
                    Tail(items), t)

\* main, step 2 and the check after it: with fewer than two cleaned sources
\* the run ends.
f_clean ==
    /\ pc = "combined"
    /\ cleaned_bookies' = clean_all(all_bookies)
    /\ IF Len(cleaned_bookies') < 2
       THEN /\ log' = log \cup {Log("too_few", <<>>)}
            /\ pc' = "done"
       ELSE /\ log' = log
            /\ pc' = "f_cleaned"
    /\ UNCHANGED <<loader_vars, apart_vars, all_bookies, clean_i, threshold, ratio, master_keys,
                   results_by_bookie, total_stake, master_columns, master_df, sure_bets,
                   report, archived, bet, stake_plan>>

\* main, step 3: the merge; an empty result ends the run.
f_merge ==
    /\ pc = "f_cleaned"
    /\ master_df' = multiway_fuzzy_merge(cleaned_bookies, threshold)
    /\ master_columns' = columns_of(MapSeq(cleaned_bookies, LAMBDA d : d.name))
    /\ IF master_df' = <<>>
       THEN /\ log' = log \cup {Log("no_merge", <<>>)}
            /\ pc' = "done"
       ELSE /\ log' = log
            /\ pc' = "merged"
    /\ UNCHANGED <<loader_vars, apart_vars, all_bookies, clean_i, cleaned_bookies, threshold, ratio,
                   master_keys, results_by_bookie, total_stake, sure_bets, report, archived,
                   bet, stake_plan>>

\* The keys of the tables of this specification.
FastKeys == {<<"A", " ", "1">>, <<"B", " ", "1">>}

\* A scorer: 100 on identical strings, otherwise below or at the threshold.
FastScorers ==
    {[p \in FastKeys \X FastKeys |-> IF p[1] = p[2] THEN 100 ELSE v] : v \in {60, 100}}

InitLoad ==
    /\ RunIdle
    /\ TrackerIdle
    /\ pc = "load_pickle"
    /\ \E present \in SUBSET FileIds :
         files \in {g \in [present -> UNION {Contents(f) : f \in FileIds}] :
                      \A f \in present : g[f] \in Contents(f)}
    /\ futures = <<>>
    /\ bookies = <<>>
    /\ pickle_bookies = <<>>
    /\ excel_bookies = <<>>
    /\ writes = [k \in {"pickle", "excel", "all"} \X Range(Bookies) |-> 0]
    /\ all_bookies = <<>>
    /\ clean_i = 0
    /\ cleaned_bookies = <<>>
    /\ threshold = FUZZY_THRESHOLD
    /\ ratio \in FastScorers
    /\ master_keys = <<>>
    /\ results_by_bookie = <<>>
    /\ total_stake = TOTAL_STAKE
    /\ master_columns = <<>>
    /\ master_df = <<>>
    /\ sure_bets = <<>>
    /\ log = {}
    /\ report = NoReport
    /\ archived = {}
    /\ bet = <<>>
    /\ stake_plan = <<>>

\* f_surebet.main.  Its steps 4 to 6 (evaluation, report, archive) are copies
\* of those of find_surebet.main and are modelled by the same actions.
NextLoad ==
    \/ submit_files
    \/ worker_finish
    \/ collect_result
    \/ loader_return
    \/ combine_bookies
    \/ f_clean
    \/ f_merge
    \/ calculate_implied_probabilities
    \/ main_report
    \/ main_archive

SpecLoad == InitLoad /\ [][NextLoad]_vars

\* ------------------------------------------- concurrent loader: the claims

PickleLoaded == pc \notin {"load_pickle", "wait_pickle"}

Usable(f) == files[f].ok /\ files[f].rows # <<>>

\* C21: whichever pickle files fail and in whatever order the workers end,
\* the dict the pickle loader returns holds every file that loaded with a
\* non-empty table, under its name and with its rows, and nothing else: no
\* entry for a file that failed.
C21_FailuresDoNotBlockOtherFiles ==
    PickleLoaded =>
        /\ \A f \in glob("pickle") :
             Usable(f) => \E i \in DOMAIN pickle_bookies :
                             pickle_bookies[i] = [name |-> f.name, rows |-> files[f].rows]
        /\ \A i \in DOMAIN pickle_bookies :
             \E f \in glob("pickle") :
                /\ Usable(f)
                /\ pickle_bookies[i] = [name |-> f.name, rows |-> files[f].rows]

C21_Witness ==
    /\ pc = "load_excel"
    /\ \E f, g \in glob("pickle") :
         /\ ~files[f].ok
         /\ Usable(g)
         /\ \E i \in DOMAIN pickle_bookies : pickle_bookies[i].name = g.name

\* C22: in the loading stage of a run no source identifier is written twice
\* to a result map: not to the pickle loader's dict, not to the Excel
\* loader's dict, not to all_bookies.
C22_IdentifierWrittenOnce ==
    \A k \in DOMAIN writes : writes[k] <= 1

FastMerged == master_columns # <<>>

\* C25: the merge is built over the keys of all cleaned sources: every row
\* of every cleaned source has its (home, time) among the merged events.
C25_EveryRowKeyAmongMergedEvents ==
    FastMerged =>
        \A d \in DOMAIN cleaned_bookies : \A i \in DOMAIN cleaned_bookies[d].rows :
            \E m \in DOMAIN master_df :
                /\ master_df[m].home = Num(cleaned_bookies[d].rows[i].home)
                /\ master_df[m].time = Num(cleaned_bookies[d].rows[i].time)

\* The dict a loader returns when its futures are collected in `order`.
RECURSIVE collected_in(_, _)
collected_in(order, kind) ==
    IF order = <<>> THEN <<>>
    ELSE LET before == collected_in(SubSeq(order, 1, Len(order) - 1), kind)
             f == order[Len(order)]
             result == IF kind = "pickle" THEN load_pickle_file(f) ELSE load_excel_file(f)
         IN  IF result[2] # <<>> THEN dict_set(before, result[1], result[2]) ELSE before

\* The best odds of a merged row, whatever the order of its columns.
best_cells(row) ==
    LET vals(sfx) == UNION {row.cols[c] : c \in {c \in DOMAIN row.cols : EndsWith(c, sfx)}}
        cell(sfx) == IF vals(sfx) = {} THEN NaN ELSE Num(Min(vals(sfx)))
    IN  [best_1 |-> cell("_1"), best_x |-> cell("_x"), best_2 |-> cell("_2")]

\* The sure bets (event, best odds, implied probability) that the run
\* reports when the loaded sources are `loaded`, in that order.
reported_of(loaded) ==
    LET cleaned == clean_all(loaded)
        df == IF Len(cleaned) < 2 THEN <<>> ELSE multiway_fuzzy_merge(cleaned, threshold)
    IN  {<<df[m].home, df[m].time, best_cells(df[m]), implied(best_cells(df[m]))>> :
            m \in {m \in DOMAIN df :
                     is_valid(best_cells(df[m])) /\ is_sure_bet(best_cells(df[m]))}}

ReportedNow ==
    {<<sure_bets[k].home, sure_bets[k].time,
       [best_1 |-> sure_bets[k].best_1, best_x |-> sure_bets[k].best_x,
        best_2 |-> sure_bets[k].best_2],
       sure_bets[k].implied>> : k \in DOMAIN sure_bets}

\* C27: the sure bets a run reports are those of every other order in which
\* the workers of the two loaders could have ended on the same files.
C27_ReportedSetIndependentOfOrder ==
    pc = "evaluated" =>
        \A op \in orders_of(glob("pickle")) : \A oe \in orders_of(glob("excel")) :
            reported_of(dict_update(collected_in(op, "pickle"), collected_in(oe, "excel")))
                = ReportedNow

\* ------------------------------------------------ run.py: the orchestrator

\* Number of scraper tasks scheduled (run.py schedules fourteen).
NumTasks == 3

\* Threads of the executor (MAX_CONCURRENT_SCRAPERS, ten in run.py).
MaxWorkers == 2

RETRIES == 3

INITIAL_DELAY == 5

Tasks == 1..NumTasks

\* The variables of the sure-bet engine but pc and log.
engine_vars == <<all_bookies, clean_i, cleaned_bookies, threshold, ratio, master_keys,
                 results_by_bookie, total_stake, master_columns, master_df, sure_bets,
                 report, archived, bet, stake_plan>>

EngineIdle ==
    /\ all_bookies = <<>>
    /\ clean_i = 0
    /\ cleaned_bookies = <<>>
    /\ threshold = FUZZY_THRESHOLD
    /\ ratio = <<>>
    /\ master_keys = <<>>
    /\ results_by_bookie = <<>>
    /\ total_stake = TOTAL_STAKE
    /\ master_columns = <<>>
    /\ master_df = <<>>
    /\ sure_bets = <<>>
    /\ report = NoReport
    /\ archived = {}
    /\ bet = <<>>
    /\ stake_plan = <<>>

may_retry_once_more(n) == n <= RETRIES

\* while attempt < retries / if attempt < retries
may_retry(n) == n < RETRIES

Running == {t \in Tasks : task_status[t] = "running"}

\* run_with_retries, top of the loop: the scraper is handed to the executor.
run_in_executor ==
    /\ pc = "gather"
    /\ \E t \in Tasks :
         /\ task_status[t] = "ready"
         /\ may_retry(attempt[t])
         /\ task_status' = [task_status EXCEPT ![t] = "queued"]
    /\ UNCHANGED <<pc, log, attempt, delay, surebet_calls, engine_vars, loader_vars,
                   tracker_vars>>

\* A free thread of the executor takes a queued scraper call.
executor_start ==
    /\ pc = "gather"
    /\ Cardinality(Running) < MaxWorkers
    /\ \E t \in Tasks :
         /\ task_status[t] = "queued"
         /\ task_status' = [task_status EXCEPT ![t] = "running"]
    /\ UNCHANGED <<pc, log, attempt, delay, surebet_calls, engine_vars, loader_vars,
                   tracker_vars>>

\* The scraper returns: run_with_retries returns "finished successfully".
scraper_returns ==
    /\ pc = "gather"
    /\ \E t \in Tasks :
         /\ task_status[t] = "running"
         /\ task_status' = [task_status EXCEPT ![t] = "succeeded"]
    /\ UNCHANGED <<pc, log, attempt, delay, surebet_calls, engine_vars, loader_vars,
                   tracker_vars>>

\* The scraper raises: the attempt is counted; the task sleeps before the
\* next attempt or gives up with "failed after N attempts".
scraper_raises ==
    /\ pc = "gather"
    /\ \E t \in Tasks :
         /\ task_status[t] = "running"
         /\ attempt' = [attempt EXCEPT ![t] = @ + 1]
         /\ task_status' = [task_status EXCEPT
                              ![t] = IF may_retry(attempt'[t]) THEN "sleeping" ELSE "failed"]
         /\ log' = IF may_retry(attempt'[t]) THEN log ELSE log \cup {Log("scraper_failed", <<>>)}
    /\ UNCHANGED <<pc, delay, surebet_calls, engine_vars, loader_vars, tracker_vars>>

\* await asyncio.sleep(delay) is over; delay *= 2.
backoff_over ==
    /\ pc = "gather"
    /\ \E t \in Tasks :
         /\ task_status[t] = "sleeping"
         /\ delay' = [delay EXCEPT ![t] = 2 * @]
         /\ task_status' = [task_status EXCEPT ![t] = "ready"]
    /\ UNCHANGED <<pc, log, attempt, surebet_calls, engine_vars, loader_vars, tracker_vars>>

\* asyncio.gather returns once every task has returned.
gather_returns ==
    /\ pc = "gather"
    /\ \A t \in Tasks : task_status[t] \in {"succeeded", "failed"}
    /\ pc' = "surebet"
    /\ UNCHANGED <<log, run_vars, engine_vars, loader_vars, tracker_vars>>

\* find_surebet.main() in its try block: it returns or raises, and either
\* way main goes on to its last log line.
call_find_surebet ==
    /\ pc = "surebet"
    /\ surebet_calls' = surebet_calls + 1
    /\ \E raised \in BOOLEAN :
         log' = log \cup {Log(IF raised THEN "surebet_error" ELSE "surebet_completed", <<>>)}
    /\ pc' = "finished"
    /\ UNCHANGED <<attempt, delay, task_status, engine_vars, loader_vars, tracker_vars>>

InitRun ==
    /\ LoaderIdle
    /\ TrackerIdle
    /\ EngineIdle
    /\ pc = "gather"
    /\ log = {}
    /\ attempt = [t \in Tasks |-> 0]
    /\ delay = [t \in Tasks |-> INITIAL_DELAY]
    /\ task_status = [t \in Tasks |-> "ready"]
    /\ surebet_calls = 0

NextRun ==
    \/ run_in_executor
    \/ executor_start
    \/ scraper_returns
    \/ scraper_raises
    \/ backoff_over
    \/ gather_returns
    \/ call_find_surebet

SpecRun == InitRun /\ [][NextRun]_vars

Ended_task(t) == task_status[t] \in {"succeeded", "failed"}

RunState ==
    /\ surebet_calls <= 1
    /\ surebet_calls = 1 => \A t \in Tasks : Ended_task(t)
    /\ pc = "finished" => surebet_calls = 1
    /\ \A t \in Tasks :
         /\ attempt[t] <= RETRIES
         /\ task_status[t] = "succeeded" => attempt[t] < RETRIES
         /\ task_status[t] = "failed" <=> attempt[t] = RETRIES

TaskStaysEnded ==
    \A t \in Tasks :
        Ended_task(t) => task_status'[t] = task_status[t] /\ attempt'[t] = attempt[t]

\* C28: find_surebet.main is called once, and only when every scraper task
\* has ended; a task ends with its first successful attempt or with its
\* third failed one and is not run again; a task that failed all its
\* attempts does not keep the run from reaching the call.
C28_SurebetOnceAfterAllScrapers ==
    []RunState /\ [][TaskStaysEnded]_vars

C28_Witness ==
    /\ pc = "finished"
    /\ surebet_calls = 1
    /\ \E t \in Tasks : task_status[t] = "failed" /\ attempt[t] = RETRIES
    /\ \E t \in Tasks : task_status[t] = "succeeded" /\ attempt[t] = 2

(***************************************************************************)
(* The record filter of src/run_api.py: function logs, which a log         *)
(* forwarder calls with every record it reads.  The file holds two scripts *)
(* one after the other, each of which defines the table id and the         *)
(* function logs; script says which of the two is the one in force.  The   *)
(* table id maps a price-change ID to its entry; of an entry the model     *)
(* keeps timestamp (a cell, empty for nil) and warned (which only the      *)
(* first script has and sets), and leaves out record, product and price,   *)
(* which only fill the labels of the emitted records.  A fuel record is    *)
(* [id, state, message], message saying whether the field is there.        *)
(***************************************************************************)
MaxRecords == 5

PriceChangeIds == {1, 2}

FuelStates == {"New", "Posted", "Executed", "Finished", "Pending"}

Timestamps == {0, 600, 601}

FuelRecords == [id : PriceChangeIds, state : FuelStates, message : BOOLEAN]

TEN_MINUTES == 600

overdue_at_ten_minutes(elapsedTime) == elapsedTime >= TEN_MINUTES

overdue(elapsedTime) == elapsedTime > TEN_MINUTES

table_set(tbl, key, entry) ==
    [k \in DOMAIN tbl \cup {key} |-> IF k = key THEN entry ELSE tbl[k]]

table_remove(tbl, keys) == [k \in DOMAIN tbl \ keys |-> tbl[k]]

\* The fuel.log branch of the first script: the table after the record.
fuel_first(record, timestamp) ==
    LET currentId == record.id
        state == record.state
        entry == IF currentId \in DOMAIN id THEN id[currentId]
                 ELSE [timestamp |-> NaN, warned |-> FALSE]
    IN  IF ~record.message THEN id
        ELSE IF state = "New"
             THEN table_set(id, currentId, [timestamp |-> NaN, warned |-> FALSE])
        ELSE IF state = "Posted"
             THEN table_set(id, currentId, [entry EXCEPT !.timestamp = Num(timestamp)])
        ELSE IF state = "Executed" \/ state = "Finished"
             THEN table_remove(id, {currentId})
        ELSE id

\* The fuel.log branch of the second script; its entries have no field
\* warned, which the model holds as FALSE.
fuel_second(record, timestamp) ==
    LET currentId == record.id
        state == record.state
        posted == IF state = "Posted"
                  THEN table_set(id, currentId,
                                 [timestamp |-> Num(timestamp), warned |-> FALSE])
                  ELSE id
    IN  IF ~record.message THEN id
        ELSE IF state = "New"
             THEN table_set(id, currentId, [timestamp |-> NaN, warned |-> FALSE])
        ELSE IF state = "Executed" \/ state = "Finished"
             THEN table_remove(posted, {currentId})
        ELSE posted

\* The IDs for which the heartbeat.log branch emits a warning.
warned_first(timestamp) ==
    {entryId \in DOMAIN id :
        /\ id[entryId].timestamp # NaN
        /\ ~id[entryId].warned
        /\ overdue(timestamp - Val(id[entryId].timestamp))}

warned_second(timestamp) ==
    {entryId \in DOMAIN id :
        /\ id[entryId].timestamp # NaN
        /\ overdue(timestamp - Val(id[entryId].timestamp))}

\* The table after the heartbeat: the first script marks the entries it
\* warned about, the second removes them.
heartbeat_first(timestamp) ==
    [entryId \in DOMAIN id |->
        IF entryId \in warned_first(timestamp)
        THEN [id[entryId] EXCEPT !.warned = TRUE]
        ELSE id[entryId]]

heartbeat_second(timestamp) == table_remove(id, warned_second(timestamp))

\* What the history keeps of the records processed so far: their number n,
\* the tag and timestamp of the last one and the IDs out it emitted a warning
\* for; and, for every ID,
\*   posted      the timestamps of the Posted records that carried a message,
\*               since the last Executed or Finished record that carried one,
\*   posted_any  the timestamps of the Posted records since the last Executed
\*               or Finished record, with a message or without,
\*   warned      (a set of IDs) a warning was emitted and no New or Posted
\*               record carrying a message has come since,
\*   warned_any  the same with New and Posted records of any kind.
after_fuel(record, timestamp) ==
    LET x == record.id
        starts == record.state \in {"New", "Posted"}
        ends == record.state \in {"Executed", "Finished"}
    IN  [n |-> processed.n + 1, tag |-> "fuel.log", timestamp |-> timestamp, out |-> {},
         posted |-> [processed.posted EXCEPT ![x] =
                        IF ends /\ record.message THEN {}
                        ELSE IF record.state = "Posted" /\ record.message
                             THEN @ \cup {timestamp} ELSE @],
         posted_any |-> [processed.posted_any EXCEPT ![x] =
                        IF ends THEN {}
                        ELSE IF record.state = "Posted" THEN @ \cup {timestamp} ELSE @],
         warned |-> IF starts /\ record.message THEN processed.warned \ {x}
                    ELSE processed.warned,
         warned_any |-> IF starts THEN processed.warned_any \ {x}
                        ELSE processed.warned_any]

after_heartbeat(timestamp, out) ==
    [processed EXCEPT !.n = @ + 1, !.tag = "heartbeat.log", !.timestamp = timestamp,
                      !.out = out, !.warned = @ \cup out, !.warned_any = @ \cup out]

\* logs is called with a record of fuel.log.
fuel_log ==
    /\ processed.n < MaxRecords
    /\ \E record \in FuelRecords, timestamp \in Timestamps :
         /\ id' = IF script = 1 THEN fuel_first(record, timestamp)
                  ELSE fuel_second(record, timestamp)
         /\ processed' = after_fuel(record, timestamp)
    /\ UNCHANGED <<script, pc, log, engine_vars, loader_vars, run_vars>>

\* logs is called with a record of heartbeat.log.
heartbeat_log ==
    /\ processed.n < MaxRecords
    /\ \E timestamp \in Timestamps :
         /\ id' = IF script = 1 THEN heartbeat_first(timestamp)
                  ELSE heartbeat_second(timestamp)
         /\ processed' = after_heartbeat(timestamp,
                            IF script = 1 THEN warned_first(timestamp)
                            ELSE warned_second(timestamp))
    /\ UNCHANGED <<script, pc, log, engine_vars, loader_vars, run_vars>>

\* logs is called with a record of another tag (winlog.log, radiant-logs.log,
\* radiant-offlinealert.log or a tag it does not know): the table is not
\* touched.
other_log ==
    /\ processed.n < MaxRecords
    /\ \E timestamp \in Timestamps :
         processed' = [processed EXCEPT !.n = @ + 1, !.tag = "winlog.log",
                                        !.timestamp = timestamp, !.out = {}]
    /\ UNCHANGED <<script, id, pc, log, engine_vars, loader_vars, run_vars>>

InitTracker ==
    /\ LoaderIdle
    /\ RunIdle
    /\ EngineIdle
    /\ pc = "filter"
    /\ log = {}
    /\ script \in {1, 2}
    /\ id = <<>>
    /\ processed = [n |-> 0, tag |-> "", timestamp |-> 0, out |-> {},
                    posted |-> [x \in PriceChangeIds |-> {}],
                    posted_any |-> [x \in PriceChangeIds |-> {}],
                    warned |-> {}, warned_any |-> {}]

NextTracker ==
    \/ fuel_log
    \/ heartbeat_log
    \/ other_log

SpecTracker == InitTracker /\ [][NextTracker]_vars

\* A heartbeat warns about x only with a Posted record for x in posted(x)
\* more than ten minutes older than the heartbeat, and only if x is not in
\* warnedBefore.
WarningsJustified(posted, warnedBefore) ==
    processed'.tag = "heartbeat.log" =>
        \A x \in processed'.out :
            /\ \E t \in posted[x] : processed'.timestamp - t > 600
            /\ x \notin warnedBefore

\* C30, as stated: a heartbeat emits the warning for an ID only if a Posted
\* record for the ID was processed more than 600 timestamp units before the
\* heartbeat and no Executed or Finished record for the ID was processed
\* since; and after a warning for an ID no later heartbeat warns about it
\* again unless a New or Posted record for the ID came in between.
C30_WarningOnlyWhenOverdueAndOnce ==
    [][WarningsJustified(processed.posted_any, processed.warned_any)]_vars

\* C30, for the records that carry a message: the Posted record, the
\* Executed or Finished record and the New or Posted record of the statement
\* are records with a message field; a fuel record without one is dropped
\* before its state is looked at.
C30_WarningOnlyWhenOverdueAndOnceWithMessage ==
    [][WarningsJustified(processed.posted, processed.warned)]_vars

\* A heartbeat has just emitted nothing, although the Posted record of an ID
\* is more than ten minutes old and no Executed or Finished record followed
\* it: the ID was warned about by an earlier heartbeat.
C30_Witness ==
    /\ processed.tag = "heartbeat.log"
    /\ processed.out = {}
    /\ \E x \in processed.warned :
         /\ x \in DOMAIN id => id[x].timestamp # NaN
         /\ \E t \in processed.posted_any[x] : processed.timestamp - t > 600

====
